---- MODULE Spec2Model ----
(***************************************************************************)
(* Horus: the event loop of src/main.rs (run, lines 85-278, and resize,    *)
(* lines 280-288) as a state machine.  One step of the machine is one      *)
(* invocation of the closure handed to event_loop.run, with the event the  *)
(* event source delivers as its input.                                     *)
(*                                                                         *)
(* The event source is winit's: one loop iteration delivers window events, *)
(* then MainEventsCleared, then RedrawRequested for every window with a    *)
(* redraw pending, then RedrawEventsCleared; ControlFlow::Exit is sticky   *)
(* (the closure is still called for the rest of the iteration, on a copy   *)
(* of the control flow it can no longer change) and the loop stops at the  *)
(* end of the iteration in which Exit was set.                             *)
(*                                                                         *)
(* StartSpec starts earlier, at the entry of main (lines 68-83), and takes *)
(* the process through create mode or the setup of run (lines 85-210) into *)
(* the same event loop.                                                    *)
(***************************************************************************)
EXTENDS Integers, Sequences, FiniteSets, TLC

VARIABLES
  status,            \* "start" (main not entered yet), "running" (in the event
                     \* loop), "returned" (main returned), "exited" (loop
                     \* destroyed) or "panicked"
  args,              \* std::env::args(), the program name first
  files,             \* the files main has created: <<name, content>> pairs
  render_pipeline,   \* the shader modules, bind group and render pipeline
  phase,             \* the part of the loop iteration: "events" or "redraw"
  control_flow,      \* the event loop's ControlFlow: "Poll" or "Exit"
  redraw_requested,  \* window.request_redraw() is pending
  config,            \* let mut config: SurfaceConfiguration
  surface,           \* the configuration last applied by surface.configure
  uniforms,          \* let mut uniforms: Uniforms
  uniforms_buffer,   \* the content of the GPU-visible uniform buffer
  clock,             \* the monotonic clock (Instant::now())
  ev,                \* the event handled by the last step
  calls,             \* the graphics calls made by the last step, in order
  last_positive,     \* history: the last event size with both dimensions > 0
  last_cursor,       \* history: the position of the last CursorMoved event
  minimized          \* history: how far the last resize events are through
                     \* the cycle 800x600, 0x0, 800x600

vars == <<status, args, files, render_pipeline, phase, control_flow, redraw_requested, config, surface,
          uniforms, uniforms_buffer, clock, ev, calls,
          last_positive, last_cursor, minimized>>

----------------------------------------------------------------------------
(* Bounds of the model.                                                    *)

\* clock readings are taken MaxClock ticks beyond 0 and beyond 2^24
MaxClock == 1
\* pointer positions have x in 0..MaxCoord
MaxCoord == 1

----------------------------------------------------------------------------
(* Program constants.                                                      *)

\* an f32 has 24 significant bits: integers below 2^24 are exact
TwoPow24 == 16777216
\* LogicalSize::new(700.0, 700.0)
InitialLogicalSize == 700
\* render_pass.draw(0..3, 0..1)
DrawVertices == 3
DrawInstances == 1
\* the slot the uniform bind group is bound at
BindGroupIndex == 0
\* wgpu::Color::BLACK, as (r, g, b, a)
BLACK == <<0, 0, 0, 1>>
\* the id of the one window the program builds
TheWindow == 1

WindowIds == {TheWindow, 2}
ScaleFactors == {1, 2}
\* the time Instant taken at startup
time == 0

\* PhysicalSize<u32> values carried by resize events
EventSizes == {<<0, 0>>, <<0, 600>>, <<800, 0>>, <<800, 600>>, <<600, 800>>}
\* PhysicalPosition<f64> values carried by pointer events (whole pixels)
Positions == {<<x, 2 * x + 1>> : x \in 0..MaxCoord}
\* readings of the monotonic clock, in ticks since `time`
ClockValues == (0..MaxClock) \cup {TwoPow24 + k : k \in 0..(MaxClock + 1)}
\* results of surface.get_current_texture()
AcquireResults == {"Ok", "Timeout", "Outdated", "Lost", "OutOfMemory"}

----------------------------------------------------------------------------
(* Numeric conversions.                                                    *)

RECURSIVE Ulp(_, _)
\* the spacing of f32 values around n >= 0
Ulp(n, q) == IF n < q * TwoPow24 THEN q ELSE Ulp(n, 2 * q)

\* `as f32` of a non-negative integer: round to nearest, ties to even
RoundF32(n) ==
  LET q  == Ulp(n, 1)
      lo == (n \div q) * q
      r  == n - lo
  IN  IF 2 * r < q THEN lo
      ELSE IF 2 * r > q THEN lo + q
      ELSE IF (lo \div q) % 2 = 0 THEN lo ELSE lo + q

\* `x as _` into an f32 field
AsF32(n) == IF n < 0 THEN 0 - RoundF32(0 - n) ELSE RoundF32(n)

as_secs_f32_subsec(now, start) == AsF32((now - start) % 2)
\* time.elapsed().as_secs_f32(): the clock ticks since `start`, as an f32
as_secs_f32(now, start) == AsF32(now - start)

----------------------------------------------------------------------------
(* Events, as the closure's match sees them.                               *)

NoWindowEvent == [kind |-> "None"]
Event(kind, window_id, event) ==
  [kind |-> kind, window_id |-> window_id, event |-> event]

MainEventsClearedEvent == Event("MainEventsCleared", 0, NoWindowEvent)
RedrawEventsClearedEvent == Event("RedrawEventsCleared", 0, NoWindowEvent)
RedrawRequestedEvent(id) == Event("RedrawRequested", id, NoWindowEvent)
WindowEvent(id, e) == Event("WindowEvent", id, e)

CloseRequested == [kind |-> "CloseRequested"]
KeyboardInput(state, keycode) ==
  [kind |-> "KeyboardInput", state |-> state, virtual_keycode |-> keycode]
Resized(size) == [kind |-> "Resized", size |-> size]
ScaleFactorChanged(sf, size) ==
  [kind |-> "ScaleFactorChanged", scale_factor |-> sf, size |-> size]
CursorMoved(position) == [kind |-> "CursorMoved", position |-> position]
Focused == [kind |-> "Focused"]

ElementStates == {"Pressed", "Released"}
\* Some(Escape), Some(another key), None
KeyCodes == {"Escape", "A", "None"}

\* a graphics call and its argument
Call(op, arg) == [op |-> op, arg |-> arg]
NoArg == <<>>

----------------------------------------------------------------------------
(* The state the closure captures, as a record:                            *)
(*   cf               the control flow the closure was handed              *)
(*   redraw_requested, config, surface, uniforms, uniforms_buffer          *)
(*   calls            the graphics calls made so far in this invocation    *)
(*   panicked         an unwrap() failed                                   *)

Uniforms(mouse, resolution, t) ==
  [mouse |-> mouse, resolution |-> resolution, time |-> t, padding |-> 0]

SurfaceConfiguration(size) ==
  [usage |-> "RENDER_ATTACHMENT", format |-> "supported_formats[0]",
   width |-> size[1], height |-> size[2],
   present_mode |-> "Fifo", alpha_mode |-> "Auto"]

resize_reformatting(s, new_size) ==
  IF new_size[1] > 0 /\ new_size[2] > 0
  THEN LET c == [SurfaceConfiguration(new_size) EXCEPT !.format = "Rgba8Unorm"]
       IN  [s EXCEPT !.config = c,
                     !.uniforms.resolution = <<AsF32(new_size[1]), AsF32(new_size[2])>>,
                     !.surface = c,
                     !.calls = Append(@, Call("configure", <<c.width, c.height>>))]
  ELSE s

resize_no_resolution(s, new_size) ==
  IF new_size[1] > 0 /\ new_size[2] > 0
  THEN LET c == [s.config EXCEPT !.width = new_size[1], !.height = new_size[2]]
       IN  [s EXCEPT !.config = c, !.surface = c,
                     !.calls = Append(@, Call("configure", <<c.width, c.height>>))]
  ELSE s

resize_width_only(s, new_size) ==
  IF new_size[1] > 0
  THEN LET c == [s.config EXCEPT !.width = new_size[1], !.height = new_size[2]]
       IN  [s EXCEPT !.config = c,
                     !.uniforms.resolution = <<AsF32(new_size[1]), AsF32(new_size[2])>>,
                     !.surface = c,
                     !.calls = Append(@, Call("configure", <<c.width, c.height>>))]
  ELSE s

resize_unguarded(s, new_size) ==
  LET c == [s.config EXCEPT !.width = new_size[1], !.height = new_size[2]]
  IN  [s EXCEPT !.config = c,
                !.uniforms.resolution = <<AsF32(new_size[1]), AsF32(new_size[2])>>,
                !.surface = c,
                !.calls = Append(@, Call("configure", <<c.width, c.height>>))]

\* fn resize: update uniforms, config and then resize surface to fit the window
resize(s, new_size) ==
  IF new_size[1] > 0 /\ new_size[2] > 0
  THEN LET c == [s.config EXCEPT !.width = new_size[1], !.height = new_size[2]]
       IN  [s EXCEPT !.config = c,
                     !.uniforms.resolution = <<AsF32(new_size[1]), AsF32(new_size[2])>>,
                     !.surface = c,
                     !.calls = Append(@, Call("configure", <<c.width, c.height>>))]
  ELSE s

cursor_moved_uploading(s, position) ==
  [s EXCEPT !.uniforms.mouse = <<AsF32(position[1]), AsF32(position[2])>>,
            !.uniforms_buffer.mouse = <<AsF32(position[1]), AsF32(position[2])>>]

cursor_moved_smoothed(s, position) ==
  [s EXCEPT !.uniforms.mouse =
     <<AsF32((s.uniforms.mouse[1] + position[1]) \div 2),
       AsF32((s.uniforms.mouse[2] + position[2]) \div 2)>>]

\* the CursorMoved arm: uniforms.mouse = [position.x as _, position.y as _]
cursor_moved(s, position) ==
  [s EXCEPT !.uniforms.mouse = <<AsF32(position[1]), AsF32(position[2])>>]

\* the CloseRequested | KeyboardInput { Pressed, Some(Escape) } arm
exit_requested(s) == [s EXCEPT !.cf = "Exit"]

\* the pattern of the first WindowEvent arm
IsExitEvent(e) ==
  \/ e.kind = "CloseRequested"
  \/ /\ e.kind = "KeyboardInput"
     /\ e.state = "Pressed"
     /\ e.virtual_keycode = "Escape"

window_event_any_escape(s, e) ==
  IF e.kind = "CloseRequested"
       \/ (e.kind = "KeyboardInput" /\ e.virtual_keycode = "Escape")
    THEN exit_requested(s)
  ELSE IF e.kind = "Resized" THEN resize(s, e.size)
  ELSE IF e.kind = "ScaleFactorChanged" THEN resize(s, e.size)
  ELSE IF e.kind = "CursorMoved" THEN cursor_moved(s, e.position)
  ELSE s

\* match event { ... } of a WindowEvent addressed to the window
window_event(s, e) ==
  IF IsExitEvent(e) THEN exit_requested(s)
  ELSE IF e.kind = "Resized" THEN resize(s, e.size)
  ELSE IF e.kind = "ScaleFactorChanged" THEN resize(s, e.size)
  ELSE IF e.kind = "CursorMoved" THEN cursor_moved(s, e.position)
  ELSE s

----------------------------------------------------------------------------
(* The RedrawRequested arm, statement by statement.                        *)
(* inp.acquire is what surface.get_current_texture() returns this cycle    *)
(* and inp.now what the clock reads.                                       *)

unwrap_texture_skipping(s, result) ==
  [s EXCEPT !.calls = Append(@, Call("get_current_texture", result))]

\* surface.get_current_texture().unwrap(): an Err panics
unwrap_texture(s, result) ==
  [s EXCEPT !.calls = Append(@, Call("get_current_texture", result)),
            !.panicked = (result # "Ok")]

\* one statement of the arm
Statement(op, s, inp) ==
  IF op = "get_current_texture" THEN unwrap_texture(s, inp.acquire)
  ELSE IF op = "elapsed"
    THEN [s EXCEPT !.uniforms.time = as_secs_f32(inp.now, time)]
  ELSE IF op = "write_buffer"
    THEN [s EXCEPT !.uniforms_buffer = s.uniforms,
                   !.calls = Append(@, Call("write_buffer", s.uniforms))]
  ELSE IF op = "begin_render_pass"
    THEN [s EXCEPT !.calls = Append(@, Call(op, [load |-> "Clear", color |-> BLACK,
                                                 store |-> TRUE]))]
  ELSE IF op = "set_bind_group"
    THEN [s EXCEPT !.calls = Append(@, Call(op, BindGroupIndex))]
  ELSE IF op = "draw"
    THEN [s EXCEPT !.calls = Append(@, Call("draw", <<DrawVertices, DrawInstances>>))]
  ELSE IF op = "submit"
    \* the draw of the submitted command buffer reads the uniform buffer as
    \* the queue holds it at submission
    THEN [s EXCEPT !.calls = Append(@, Call("submit", s.uniforms_buffer))]
  ELSE [s EXCEPT !.calls = Append(@, Call(op, NoArg))]

RECURSIVE Run(_, _, _)
\* the statements in program order; a panic ends the invocation
Run(ops, s, inp) ==
  IF ops = <<>> \/ s.panicked THEN s
  ELSE Run(Tail(ops), Statement(Head(ops), s, inp), inp)

RedrawStatementsNoPresent ==
  <<"get_current_texture", "create_view", "elapsed", "write_buffer",
    "create_command_encoder", "begin_render_pass", "set_pipeline",
    "set_bind_group", "draw", "submit">>

RedrawStatementsBindLate ==
  <<"get_current_texture", "create_view", "elapsed", "write_buffer",
    "create_command_encoder", "begin_render_pass", "set_pipeline",
    "draw", "set_bind_group", "submit", "present">>

RedrawStatementsWriteFirst ==
  <<"elapsed", "write_buffer", "get_current_texture", "create_view",
    "create_command_encoder", "begin_render_pass", "set_pipeline",
    "set_bind_group", "draw", "submit", "present">>

RedrawStatementsWriteLate ==
  <<"get_current_texture", "create_view", "elapsed",
    "create_command_encoder", "begin_render_pass", "set_pipeline",
    "set_bind_group", "draw", "submit", "write_buffer", "present">>

\* lines 243-273 in order
RedrawStatements ==
  <<"get_current_texture", "create_view", "elapsed", "write_buffer",
    "create_command_encoder", "begin_render_pass", "set_pipeline",
    "set_bind_group", "draw", "submit", "present">>

redraw_requested_arm(s, inp) ==
  [Run(RedrawStatements, s, inp) EXCEPT !.redraw_requested = FALSE]

----------------------------------------------------------------------------
(* The closure handed to event_loop.run.                                   *)

closure_never_requesting(s0, event, inp) ==
  LET s == [s0 EXCEPT !.cf = "Poll"]
  IN  IF event.kind = "WindowEvent" /\ event.window_id = TheWindow
        THEN window_event(s, event.event)
      ELSE IF event.kind = "RedrawRequested" /\ event.window_id = TheWindow
        THEN redraw_requested_arm(s, inp)
      ELSE s

closure(s0, event, inp) ==
  LET s == [s0 EXCEPT !.cf = "Poll"]
  IN  IF event.kind = "MainEventsCleared"
        THEN [s EXCEPT !.redraw_requested = TRUE,
                       !.calls = Append(@, Call("request_redraw", NoArg))]
      ELSE IF event.kind = "WindowEvent" /\ event.window_id = TheWindow
        THEN window_event(s, event.event)
      ELSE IF event.kind = "RedrawRequested" /\ event.window_id = TheWindow
        THEN redraw_requested_arm(s, inp)
      ELSE s

\* what the closure sees when it is called
Captured ==
  [cf |-> control_flow, redraw_requested |-> redraw_requested,
   config |-> config, surface |-> surface, uniforms |-> uniforms,
   uniforms_buffer |-> uniforms_buffer, calls |-> <<>>, panicked |-> FALSE]

NoInput == [acquire |-> "Ok", now |-> clock]

\* ControlFlow::Exit is sticky: once set, what the closure writes is dropped
Sticky(old, new) == IF old = "Exit" THEN "Exit" ELSE new

\* the event source calls the closure with `event`; `next_phase` is where the
\* loop iteration stands afterwards, and `last` says the iteration ends here
Dispatch(event, inp, next_phase, last) ==
  /\ status = "running"
  /\ \E s \in {closure(Captured, event, inp)} :
      /\ phase' = next_phase
      /\ ev' = event
      /\ calls' = s.calls
      /\ control_flow' = Sticky(control_flow, s.cf)
      /\ redraw_requested' = s.redraw_requested
      /\ config' = s.config
      /\ surface' = s.surface
      /\ uniforms' = s.uniforms
      /\ uniforms_buffer' = s.uniforms_buffer
      /\ clock' = inp.now
      /\ UNCHANGED <<args, files, render_pipeline>>
      /\ status' = IF s.panicked THEN "panicked"
                   ELSE IF last /\ control_flow = "Exit" THEN "exited"
                   ELSE "running"

\* the window at 800x600, minimized (0x0), and back at 800x600
MinimizedCycle == <<(<<800, 600>>), (<<0, 0>>), (<<800, 600>>)>>

\* how far the resize events, `size` being the last, are through the cycle
Cycle(size) ==
  IF minimized < Len(MinimizedCycle) /\ size = MinimizedCycle[minimized + 1]
    THEN minimized + 1
  ELSE IF size = MinimizedCycle[1] THEN 1
  ELSE 0

IsPositive(size) == size[1] > 0 /\ size[2] > 0

----------------------------------------------------------------------------
(* main (lines 68-83) and the setup of run (lines 85-210).                 *)
(* Strings are sequences of characters.                                    *)

Horus == <<"h", "o", "r", "u", "s">>
CreateFlag == <<"-", "c">>
WgslSuffix == <<".", "w", "g", "s", "l">>
DefaultName == <<"f", "r", "a", "g", "m", "e", "n", "t">>
WaveName == <<"w", "a", "v", "e">>
MyCool == <<"m", "y", "-", "c", "o", "o", "l", ".", "w", "g", "s", "l">>

\* the command lines the process is started with
ArgLists ==
  {<<Horus>>, <<Horus, CreateFlag>>, <<Horus, CreateFlag, WaveName>>,
   <<Horus, WaveName \o WgslSuffix>>, <<Horus, MyCool>>}

\* the built-in FRAGMENT_SOURCE, or the text of the file at a path
BuiltIn == <<"FRAGMENT_SOURCE">>
FileAt(path) == <<"file", path>>

\* not built, not configured, not created yet
Unset == <<>>

\* str::contains
contains(s, pat) ==
  \E i \in 1..(Len(s) - Len(pat) + 1) : SubSeq(s, i, i + Len(pat) - 1) = pat

unwrap_lenient(s, op, result) ==
  [s EXCEPT !.calls = Append(@, Call(op, result))]

\* .unwrap() / .expect(): an Err or a None panics
unwrap(s, op, result) ==
  [s EXCEPT !.calls = Append(@, Call(op, result)),
            !.panicked = (result \notin {"Ok", "Some"})]

\* File::create(name) truncates or creates the file; write_all fills it
WithFile(fs, name, content) ==
  {f \in fs : f[1] # name} \cup {<<name, content>>}


\* one statement of the setup of run
SetupStatement(op, s, inp) ==
  IF op = "request_adapter" THEN unwrap(s, op, inp.adapter)
  ELSE IF op = "request_device" THEN unwrap(s, op, inp.device)
  ELSE IF op = "configure"
    THEN [s EXCEPT !.config = SurfaceConfiguration(inp.size),
                   !.surface = SurfaceConfiguration(inp.size),
                   !.calls = Append(@, Call("configure", inp.size))]
  ELSE IF op = "read_to_string"
    THEN IF Len(s.args) > 1
           THEN [unwrap(s, op, inp.read) EXCEPT
                   !.fragment_source = FileAt(s.args[2])]
           ELSE s
  ELSE IF op = "create_fragment_shader"
    \* a source that does not compile is fatal; the built-in one compiles
    THEN unwrap(s, op, IF s.fragment_source = BuiltIn THEN "Ok" ELSE inp.compile)
  ELSE IF op = "create_buffer_init"
    THEN LET u == Uniforms(<<0, 0>>,
                           <<AsF32(inp.size[1]), AsF32(inp.size[2])>>, 0)
         IN  [s EXCEPT !.uniforms = u, !.uniforms_buffer = u,
                       !.calls = Append(@, Call(op, u))]
  ELSE IF op = "create_render_pipeline"
    THEN [s EXCEPT !.render_pipeline =
                      [vertex |-> "VERTEX_SOURCE",
                       fragment |-> s.fragment_source,
                       target |-> s.config.format,
                       bind_group |-> BindGroupIndex],
                   !.calls = Append(@, Call(op, NoArg))]
  ELSE [s EXCEPT !.calls = Append(@, Call(op, NoArg))]


RECURSIVE RunSetup(_, _, _)
\* the statements in program order; a panic ends the process
RunSetup(ops, s, inp) ==
  IF ops = <<>> \/ s.panicked THEN s
  ELSE RunSetup(Tail(ops), SetupStatement(Head(ops), s, inp), inp)

\* lines 86-211 in order
SetupStatements ==
  <<"env_logger_init", "EventLoop_new", "build_window", "create_surface",
    "request_adapter", "request_device", "configure", "create_vertex_shader",
    "read_to_string", "create_fragment_shader", "create_buffer_init",
    "create_bind_group_layout", "create_bind_group", "create_pipeline_layout",
    "create_render_pipeline", "event_loop_run">>

create_shader_file_no_return(s, inp) ==
  LET name == (IF Len(s.args) > 2 THEN s.args[3] ELSE DefaultName) \o WgslSuffix
      created == unwrap(s, "File::create", inp.create)
      written == unwrap([created EXCEPT !.files = WithFile(@, name, "")],
                        "write_all", inp.write)
  IN  IF created.panicked THEN created
      ELSE IF written.panicked THEN written
      ELSE RunSetup(SetupStatements,
                    [written EXCEPT !.files = WithFile(@, name, "FRAGMENT_SOURCE")],
                    inp)

\* the create-mode branch of main, lines 70-78
create_shader_file(s, inp) ==
  LET name == (IF Len(s.args) > 2 THEN s.args[3] ELSE DefaultName) \o WgslSuffix
      created == unwrap(s, "File::create", inp.create)
      written == unwrap([created EXCEPT !.files = WithFile(@, name, "")],
                        "write_all", inp.write)
  IN  IF created.panicked THEN created
      ELSE IF written.panicked THEN written
      ELSE [written EXCEPT !.files = WithFile(@, name, "FRAGMENT_SOURCE"),
                           !.returned = TRUE]

\* fn main: create mode, or run
main(s, inp) ==
  IF Len(s.args) > 1 /\ contains(s.args[2], CreateFlag)
    THEN create_shader_file(s, inp)
    ELSE RunSetup(SetupStatements, s, inp)

\* the process when main is entered with the command line a
Started(a) ==
  [args |-> a, files |-> {}, calls |-> <<>>, panicked |-> FALSE,
   returned |-> FALSE, fragment_source |-> BuiltIn, config |-> Unset,
   surface |-> Unset, uniforms |-> Unset, uniforms_buffer |-> Unset,
   render_pipeline |-> Unset]

\* what the environment answers during main
Inputs ==
  [create : {"Ok", "Err"}, write : {"Ok", "Err"}, adapter : {"Some", "None"},
   device : {"Ok", "Err"}, read : {"Ok", "Err"}, compile : {"Ok", "Err"},
   size : {<<InitialLogicalSize * sf, InitialLogicalSize * sf>> :
             sf \in ScaleFactors}]

AllOk(inp) ==
  /\ inp.create = "Ok" /\ inp.write = "Ok" /\ inp.adapter = "Some"
  /\ inp.device = "Ok" /\ inp.read = "Ok" /\ inp.compile = "Ok"

----------------------------------------------------------------------------
(* The state when event_loop.run is entered: main was started without      *)
(* arguments and every setup step succeeded.                               *)

Init ==
  \E inp \in {i \in Inputs : AllOk(i)} :
    \E s \in {main(Started(<<Horus>>), inp)} :
        /\ status = "running"
        /\ args = s.args
        /\ files = s.files
        /\ render_pipeline = s.render_pipeline
        /\ phase = "events"
        /\ control_flow = "Poll"
        /\ redraw_requested = FALSE
        /\ config = s.config
        /\ surface = s.surface
        /\ uniforms = s.uniforms
        /\ uniforms_buffer = s.uniforms_buffer
        /\ clock = time
        /\ ev = Event("Init", 0, NoWindowEvent)
        /\ calls = s.calls
        /\ last_positive = inp.size
        /\ last_cursor = <<>>
        /\ minimized = 0

\* the process before main is entered
StartInit ==
  /\ status = "start"
  /\ args \in ArgLists
  /\ files = {}
  /\ render_pipeline = Unset
  /\ phase = "events"
  /\ control_flow = "Poll"
  /\ redraw_requested = FALSE
  /\ config = Unset
  /\ surface = Unset
  /\ uniforms = Unset
  /\ uniforms_buffer = Unset
  /\ clock = time
  /\ ev = Event("Start", 0, NoWindowEvent)
  /\ calls = <<>>
  /\ last_positive = <<>>
  /\ last_cursor = <<>>
  /\ minimized = 0

\* main runs: to its return, to a panic, or into the event loop
Main ==
  /\ status = "start"
  /\ \E inp \in Inputs :
       \E s \in {main(Started(args), inp)} :
           /\ status' = IF s.panicked THEN "panicked"
                        ELSE IF s.returned THEN "returned"
                        ELSE "running"
           /\ files' = s.files
           /\ render_pipeline' = s.render_pipeline
           /\ config' = s.config
           /\ surface' = s.surface
           /\ uniforms' = s.uniforms
           /\ uniforms_buffer' = s.uniforms_buffer
           /\ ev' = Event("Init", 0, NoWindowEvent)
           /\ calls' = s.calls
           /\ last_positive' = IF s.config = Unset THEN <<>> ELSE inp.size
  /\ UNCHANGED <<args, phase, control_flow, redraw_requested, clock,
                 last_cursor, minimized>>

----------------------------------------------------------------------------
(* One action per event the event source delivers.                         *)

history == <<last_positive, last_cursor, minimized>>

CloseRequestedEvent ==
  /\ phase = "events"
  /\ Dispatch(WindowEvent(TheWindow, CloseRequested), NoInput, "events", FALSE)
  /\ UNCHANGED history

KeyboardInputEvent ==
  /\ phase = "events"
  /\ \E state \in ElementStates, keycode \in KeyCodes :
       Dispatch(WindowEvent(TheWindow, KeyboardInput(state, keycode)),
                NoInput, "events", FALSE)
  /\ UNCHANGED history

ResizedEvent ==
  /\ phase = "events"
  /\ \E size \in EventSizes :
       /\ Dispatch(WindowEvent(TheWindow, Resized(size)), NoInput, "events", FALSE)
       /\ last_positive' = IF IsPositive(size) THEN size ELSE last_positive
       /\ minimized' = Cycle(size)
  /\ UNCHANGED last_cursor

ScaleFactorChangedEvent ==
  /\ phase = "events"
  /\ \E sf \in ScaleFactors, size \in EventSizes :
       /\ Dispatch(WindowEvent(TheWindow, ScaleFactorChanged(sf, size)),
                   NoInput, "events", FALSE)
       /\ last_positive' = IF IsPositive(size) THEN size ELSE last_positive
       /\ minimized' = Cycle(size)
  /\ UNCHANGED last_cursor

CursorMovedEvent ==
  /\ phase = "events"
  /\ \E position \in Positions :
       /\ Dispatch(WindowEvent(TheWindow, CursorMoved(position)),
                   NoInput, "events", FALSE)
       /\ last_cursor' = position
  /\ UNCHANGED <<last_positive, minimized>>

\* a window event no arm matches
OtherWindowEvent ==
  /\ phase = "events"
  /\ Dispatch(WindowEvent(TheWindow, Focused), NoInput, "events", FALSE)
  /\ UNCHANGED history

\* an event whose window id is not the window's
ForeignEvent ==
  /\ \/ /\ phase = "events"
        /\ \E id \in WindowIds \ {TheWindow},
              e \in {CloseRequested, Resized(<<800, 600>>)} :
             Dispatch(WindowEvent(id, e), NoInput, "events", FALSE)
     \/ /\ phase = "redraw"
        /\ \E id \in WindowIds \ {TheWindow} :
             Dispatch(RedrawRequestedEvent(id), NoInput, "redraw", FALSE)
  /\ UNCHANGED history

MainEventsCleared ==
  /\ phase = "events"
  /\ Dispatch(MainEventsClearedEvent, NoInput, "redraw", FALSE)
  /\ UNCHANGED history

RedrawRequested ==
  /\ phase = "redraw"
  /\ redraw_requested
  /\ \E acquire \in AcquireResults, now \in ClockValues :
       /\ now >= clock
       /\ Dispatch(RedrawRequestedEvent(TheWindow),
                   [acquire |-> acquire, now |-> now], "redraw", FALSE)
  /\ UNCHANGED history

\* the end of the loop iteration; the loop is destroyed if Exit was set
RedrawEventsCleared ==
  /\ phase = "redraw"
  /\ ~redraw_requested
  /\ Dispatch(RedrawEventsClearedEvent, NoInput, "events", TRUE)
  /\ UNCHANGED history

Next ==
  \/ CloseRequestedEvent
  \/ KeyboardInputEvent
  \/ ResizedEvent
  \/ ScaleFactorChangedEvent
  \/ CursorMovedEvent
  \/ OtherWindowEvent
  \/ ForeignEvent
  \/ MainEventsCleared
  \/ RedrawRequested
  \/ RedrawEventsCleared

Spec == Init /\ [][Next]_vars

StartNext == Main \/ Next

StartSpec == StartInit /\ [][StartNext]_vars

----------------------------------------------------------------------------
(* Vocabulary of the properties.                                           *)

\* the last step handled a window event of one of `kinds` for the window
Handled(e, kinds) ==
  /\ e.kind = "WindowEvent"
  /\ e.window_id = TheWindow
  /\ e.event.kind \in kinds

\* the last step handled a redraw request for the window
IsRedraw(e) == e.kind = "RedrawRequested" /\ e.window_id = TheWindow

ResizeKinds == {"Resized", "ScaleFactorChanged"}

\* the last step handled a resize with a zero dimension
IsZeroResize(e) == Handled(e, ResizeKinds) /\ ~IsPositive(e.event.size)

\* the last step handled a close request or a pressed Escape
IsExit(e) ==
  Handled(e, {"CloseRequested", "KeyboardInput"}) /\ IsExitEvent(e.event)

\* the calls of `c` named op
Ops(c, op) == {i \in DOMAIN c : c[i].op = op}

\* what get_current_texture returned in `c`, if it was called
Acquired(c) == {c[i].arg : i \in Ops(c, "get_current_texture")}

\* no frame was acquired, submitted or presented in `c`
NoFrame(c) ==
  /\ Acquired(c) \cap {"Ok"} = {}
  /\ Ops(c, "submit") = {}
  /\ Ops(c, "present") = {}

\* a u32 or f64 pair as Uniforms holds it, in f32
AsResolution(size) == <<AsF32(size[1]), AsF32(size[2])>>

----------------------------------------------------------------------------
(* Properties.                                                             *)

\* C1: in every reachable state the surface configuration's (width, height),
\* the size last passed to surface.configure and Uniforms.resolution all equal
\* the most recent resize event size with both dimensions positive, or the
\* initial window size if there was none.
C1_ResolutionTracksConfiguredSize ==
  /\ <<config.width, config.height>> = last_positive
  /\ <<surface.width, surface.height>> = last_positive
  /\ uniforms.resolution = last_positive

\* a zero-sized scale-factor change arrives after a resize to 600x800
C1_Witness ==
  /\ Handled(ev, {"ScaleFactorChanged"})
  /\ ~IsPositive(ev.event.size)
  /\ last_positive = <<600, 800>>
  /\ uniforms.resolution = <<600, 800>>

\* C2: a Resized or ScaleFactorChanged event with a zero width or a zero
\* height changes nothing: config, Uniforms, the applied surface
\* configuration, the uniform buffer and the loop's control state are as
\* before, and surface.configure is not called.
C2_ZeroResizeIsNoOp ==
  [][IsZeroResize(ev') =>
       /\ config' = config
       /\ uniforms' = uniforms
       /\ surface' = surface
       /\ calls' = <<>>
       /\ UNCHANGED <<uniforms_buffer, control_flow, redraw_requested,
                      status, phase, clock>>]_vars

\* a Resized event with a zero height arrives after a resize to 600x800
C2_Witness ==
  /\ Handled(ev, {"Resized"})
  /\ ev.event.size = <<800, 0>>
  /\ <<config.width, config.height>> = <<600, 800>>
  /\ calls = <<>>

\* C3: every surface.configure call, the startup one included, is made with
\* width > 0 and height > 0, so the applied configuration never has a zero
\* dimension; after resize(800,600), resize(0,0), resize(800,600) the
\* configured size is 800x600.
C3_ConfigureOnlyPositive ==
  /\ \A i \in Ops(calls, "configure") : IsPositive(calls[i].arg)
  /\ IsPositive(<<surface.width, surface.height>>)
  /\ minimized = Len(MinimizedCycle) =>
       <<surface.width, surface.height>> = <<800, 600>>

\* the window went 800x600, 0x0, 800x600 and the last event configured
C3_Witness ==
  /\ minimized = Len(MinimizedCycle)
  /\ calls = <<Call("configure", <<800, 600>>)>>

\* C4: Uniforms.mouse is the position of the last CursorMoved event (as f32),
\* whatever was handled since, and (0, 0) before the first one.
C4_MouseIsLastPosition ==
  uniforms.mouse = IF last_cursor = <<>> THEN <<0, 0>>
                   ELSE <<AsF32(last_cursor[1]), AsF32(last_cursor[2])>>

\* a frame is drawn after pointer moves
C4_Witness ==
  /\ IsRedraw(ev)
  /\ Ops(calls, "present") # {}
  /\ last_cursor = <<MaxCoord, 2 * MaxCoord + 1>>
  /\ uniforms.mouse = last_cursor

\* C5: Uniforms.time never decreases from one step to the next, so the time
\* written by a redraw is >= the time written by any earlier redraw.
C5_TimeMonotonic == [][uniforms'.time >= uniforms.time]_vars

\* a redraw at a later clock reading writes the same f32 time as before
C5_Witness ==
  /\ IsRedraw(ev)
  /\ Ops(calls, "write_buffer") # {}
  /\ clock = TwoPow24 + 1
  /\ uniforms.time = TwoPow24

\* C6: handling CloseRequested or a pressed Escape sets the control flow to
\* Exit in that step, and once the control flow is Exit no step acquires,
\* submits or presents a frame.
C6_NoFrameAfterExit ==
  [][/\ IsExit(ev') => control_flow' = "Exit"
     /\ control_flow = "Exit" => NoFrame(calls')]_vars

\* C7: in a redraw that submits, the uniform buffer is written before the
\* submission, what is written and what the submitted draw reads are the
\* Uniforms of this cycle: the mouse of the last pointer move, the resolution
\* of the last positive resize and the time computed from this cycle's clock
\* reading.
C7_WriteBeforeSubmit ==
  \A j \in Ops(calls, "submit") :
    /\ \E i \in Ops(calls, "write_buffer") : i < j /\ calls[i].arg = uniforms
    /\ calls[j].arg = uniforms
    /\ uniforms.mouse = (IF last_cursor = <<>> THEN <<0, 0>>
                         ELSE AsResolution(last_cursor))
    /\ uniforms.resolution = AsResolution(last_positive)
    /\ uniforms.time = AsF32(clock - time)

\* a frame is submitted after a pointer move, a resize and a clock advance
C7_Witness ==
  /\ Ops(calls, "submit") # {}
  /\ last_cursor = <<0, 1>>
  /\ last_positive = <<800, 600>>
  /\ clock = 1
  /\ uniforms_buffer.time = 1

\* C8: a redraw whose acquisition fails with Lost or Outdated renders
\* nothing, reconfigures the surface at (config.width, config.height) and
\* leaves the driver running.
C8_RecoverableErrorReconfigures ==
  [][(IsRedraw(ev') /\ Acquired(calls') \cap {"Lost", "Outdated"} # {}) =>
       /\ status' = "running"
       /\ Ops(calls', "submit") = {}
       /\ \E i \in Ops(calls', "configure") :
            calls'[i].arg = <<config.width, config.height>>]_vars

\* C9: a redraw whose acquisition fails with Timeout drops the frame and
\* leaves the driver running.
C9_TimeoutKeepsRunning ==
  [][(IsRedraw(ev') /\ "Timeout" \in Acquired(calls')) =>
       /\ status' = "running"
       /\ Ops(calls', "submit") = {}
       /\ Ops(calls', "present") = {}]_vars

\* C10: a redraw whose acquisition fails with OutOfMemory ends the process:
\* nothing is submitted or presented in that cycle, and from then on no step
\* is taken, so no frame is acquired, submitted or presented.
C10_OutOfMemoryTerminates ==
  [][/\ (IsRedraw(ev') /\ "OutOfMemory" \in Acquired(calls')) =>
          /\ status' = "panicked"
          /\ Ops(calls', "submit") = {}
          /\ Ops(calls', "present") = {}
     /\ status = "panicked" => (status' = "panicked" /\ calls' = calls)]_vars

\* the process died of OutOfMemory in a redraw
C10_Witness ==
  /\ status = "panicked"
  /\ IsRedraw(ev)
  /\ calls = <<Call("get_current_texture", "OutOfMemory")>>

\* the setup calls that can fail, and a failed one among `c`
FallibleSetup ==
  {"request_adapter", "request_device", "read_to_string",
   "create_fragment_shader"}
FailedSetup(c) ==
  {i \in DOMAIN c : c[i].op \in FallibleSetup /\ c[i].arg \in {"None", "Err"}}

\* the file name create mode writes for the command line a
CreatedName(a) == (IF Len(a) > 2 THEN a[3] ELSE DefaultName) \o WgslSuffix

\* C11: when a setup step of run fails (no adapter, no device, unreadable
\* shader file, shader that does not compile) the process panics in main:
\* the failed call is the last call made, no call is made twice, the event
\* loop is not entered, and from then on no step is taken, so no event is
\* handled and no frame acquired.
C11_SetupFailureAborts ==
  [][/\ (status = "start" /\ FailedSetup(calls') # {}) =>
          /\ status' = "panicked"
          /\ FailedSetup(calls') = {Len(calls')}
          /\ \A i, j \in DOMAIN calls' : calls'[i].op = calls'[j].op => i = j
          /\ Ops(calls', "event_loop_run") = {}
     /\ status = "panicked" => UNCHANGED <<status, ev, calls>>]_vars

\* the shader file was read but did not compile
C11_Witness ==
  /\ status = "panicked"
  /\ calls[Len(calls)] = Call("create_fragment_shader", "Err")
  /\ Ops(calls, "read_to_string") # {}
  /\ render_pipeline = Unset

\* C12: started with the create flag as first argument, main creates
\* '<name>.wgsl' (name = second argument, default 'fragment'), fills it with
\* the built-in fragment shader and returns; a failure to create or to write
\* panics; either way no window, device, surface, pipeline or event loop is
\* made.
C12_CreateModeWritesAndReturns ==
  [][(status = "start" /\ Len(args) > 1 /\ args[2] = CreateFlag) =>
       /\ status' \in {"returned", "panicked"}
       /\ status' = "returned" <=>
            calls' = <<Call("File::create", "Ok"), Call("write_all", "Ok")>>
       /\ status' = "returned" =>
            files' = {<<CreatedName(args), "FRAGMENT_SOURCE">>}
       /\ \A i \in DOMAIN calls' : calls'[i].op \in {"File::create", "write_all"}
       /\ render_pipeline' = Unset
       /\ surface' = Unset]_vars

\* `horus -c wave` wrote wave.wgsl and returned
C12_Witness ==
  /\ status = "returned"
  /\ args = <<Horus, CreateFlag, WaveName>>
  /\ files = {<<WaveName \o WgslSuffix, "FRAGMENT_SOURCE">>}

\* C17: main enters create mode only when the first argument is exactly the
\* create flag; any other first argument is the path of the fragment shader
\* the pipeline is built from, and without an argument the built-in
\* fragment shader is used.
C17_CreateModeOnlyOnExactFlag ==
  [][status = "start" =>
       /\ (status' = "returned" \/ files' # files
             \/ Ops(calls', "File::create") # {}) =>
            (Len(args) > 1 /\ args[2] = CreateFlag)
       /\ (status' = "running" /\ Len(args) > 1) =>
            render_pipeline'.fragment = FileAt(args[2])
       /\ (status' = "running" /\ Len(args) = 1) =>
            render_pipeline'.fragment = BuiltIn]_vars

\* the calls of a redraw that got its frame, with `u` the Uniforms drawn
Frame(u) ==
  <<Call("get_current_texture", "Ok"),
    Call("create_view", NoArg),
    Call("write_buffer", u),
    Call("create_command_encoder", NoArg),
    Call("begin_render_pass", [load |-> "Clear", color |-> BLACK, store |-> TRUE]),
    Call("set_pipeline", NoArg),
    Call("set_bind_group", BindGroupIndex),
    Call("draw", <<DrawVertices, DrawInstances>>),
    Call("submit", u),
    Call("present", NoArg)>>

\* C13: a redraw whose acquisition succeeds makes, once each and in this
\* order: one render pass clearing to black, the pipeline and the uniform
\* bind group at slot 0, one draw of 3 vertices and 1 instance, one
\* submission, the presentation of the acquired frame; afterwards the driver
\* is running with no redraw pending and the frame consumed by present.
C13_SuccessfulRedrawSequence ==
  [][(IsRedraw(ev') /\ "Ok" \in Acquired(calls')) =>
       /\ calls' = Frame(uniforms')
       /\ status' = "running"
       /\ ~redraw_requested']_vars

\* a frame was drawn in a 600x800 window
C13_Witness ==
  /\ IsRedraw(ev)
  /\ calls = Frame(uniforms)
  /\ uniforms.resolution = <<600, 800>>
  /\ status = "running"

\* the frames acquired in `c` and not presented by the end of `c`
Outstanding(c) ==
  {i \in Ops(c, "get_current_texture") :
     /\ c[i].arg = "Ok"
     /\ \A j \in Ops(c, "present") : j < i}

\* C14: a step acquires at most once, every frame it acquires is presented
\* before the step ends, so no frame is outstanding in any reachable state
\* (let alone two), and only a redraw request for the window acquires.
C14_OneFramePerCycle ==
  /\ Cardinality(Ops(calls, "get_current_texture")) <= 1
  /\ Outstanding(calls) = {}
  /\ Ops(calls, "get_current_texture") # {} => IsRedraw(ev)

\* a second frame was acquired and presented
C14_Witness ==
  /\ IsRedraw(ev)
  /\ Acquired(calls) = {"Ok"}
  /\ calls[Len(calls)].op = "present"
  /\ uniforms.time = 1
  /\ clock = 1

\* C15 as stated: every redraw writes the uniform buffer exactly once, and
\* nothing else writes it, so between redraws its content is the snapshot
\* of the earlier redraw.
C15_WrittenOncePerRedraw ==
  [][/\ IsRedraw(ev') =>
          /\ Cardinality(Ops(calls', "write_buffer")) = 1
          /\ uniforms_buffer' = uniforms'
     /\ ~IsRedraw(ev') =>
          /\ Ops(calls', "write_buffer") = {}
          /\ uniforms_buffer' = uniforms_buffer]_vars

\* C15, amended: a redraw whose acquisition succeeds writes the uniform
\* buffer exactly once, with the Uniforms of that cycle; a redraw whose
\* acquisition fails and every other event leave the buffer as it was, so
\* between redraws its content is the snapshot of the last successful
\* redraw (the initial Uniforms before the first).
C15_WrittenOncePerAcquiredFrame ==
  [][/\ (IsRedraw(ev') /\ "Ok" \in Acquired(calls')) =>
          /\ Cardinality(Ops(calls', "write_buffer")) = 1
          /\ uniforms_buffer' = uniforms'
     /\ ~(IsRedraw(ev') /\ "Ok" \in Acquired(calls')) =>
          /\ Ops(calls', "write_buffer") = {}
          /\ uniforms_buffer' = uniforms_buffer]_vars

\* after a frame at time 1, a pointer move changed Uniforms.mouse only
C15_Witness ==
  /\ Handled(ev, {"CursorMoved"})
  /\ uniforms.mouse = <<1, 3>>
  /\ uniforms_buffer.mouse = <<0, 0>>
  /\ uniforms_buffer.time = 1

\* C16 as stated: a redraw advances Uniforms.time, then writes the uniform
\* buffer, then acquires the frame, so time and buffer are updated in every
\* redraw, failed acquisitions included.
C16_TimeWriteThenAcquire ==
  [][IsRedraw(ev') =>
       /\ \E w \in Ops(calls', "write_buffer") :
            /\ calls'[w].arg.time = AsF32(clock' - time)
            /\ \E a \in Ops(calls', "get_current_texture") : w < a
       /\ uniforms'.time = AsF32(clock' - time)
       /\ uniforms_buffer' = uniforms']_vars

\* C16, amended: a redraw acquires the frame first; only when that succeeds
\* does it advance Uniforms.time and then write the uniform buffer (with the
\* new time); when the acquisition fails neither Uniforms nor the buffer
\* changes.
C16_AcquireThenTimeWrite ==
  [][IsRedraw(ev') =>
       /\ calls'[1].op = "get_current_texture"
       /\ calls'[1].arg = "Ok" =>
            /\ \E w \in Ops(calls', "write_buffer") :
                 /\ 1 < w
                 /\ calls'[w].arg.time = AsF32(clock' - time)
            /\ uniforms'.time = AsF32(clock' - time)
            /\ uniforms_buffer' = uniforms'
       /\ calls'[1].arg # "Ok" =>
            /\ Ops(calls', "write_buffer") = {}
            /\ uniforms' = uniforms
            /\ uniforms_buffer' = uniforms_buffer]_vars

\* the acquisition failed at clock reading 1 and the time stayed 0
C16_Witness ==
  /\ IsRedraw(ev)
  /\ Acquired(calls) = {"Lost"}
  /\ clock = 1
  /\ uniforms.time = 0
  /\ uniforms_buffer.time = 0

\* the calls that build a pipeline, a bind group or a shader module
Builders ==
  {"create_vertex_shader", "create_fragment_shader", "create_bind_group_layout",
   "create_bind_group", "create_pipeline_layout", "create_render_pipeline"}

\* C18: a redraw leaves mouse, resolution and the surface configuration as
\* they were; a pointer move changes Uniforms.mouse only; a resize changes
\* only width and height of the configuration and Uniforms.resolution; any
\* other event changes none of them; format, present mode (Fifo) and usage
\* stay as set at startup, so the surface format stays the target format of
\* the render pipeline; and no step rebuilds the pipeline, the bind group or
\* a shader module.
C18_EventsChangeOwnPart ==
  [][/\ IsRedraw(ev') =>
          /\ uniforms' = [uniforms EXCEPT !.time = uniforms'.time]
          /\ config' = config /\ surface' = surface
     /\ Handled(ev', {"CursorMoved"}) =>
          /\ uniforms' = [uniforms EXCEPT !.mouse = uniforms'.mouse]
          /\ config' = config /\ surface' = surface
          /\ uniforms_buffer' = uniforms_buffer
     /\ Handled(ev', ResizeKinds) =>
          /\ uniforms' = [uniforms EXCEPT !.resolution = uniforms'.resolution]
          /\ config' = [config EXCEPT !.width = config'.width,
                                      !.height = config'.height]
          /\ surface' = config'
          /\ uniforms_buffer' = uniforms_buffer
     /\ ~(IsRedraw(ev') \/ Handled(ev', ResizeKinds \cup {"CursorMoved"})) =>
          UNCHANGED <<uniforms, uniforms_buffer, config, surface>>
     /\ config'.format = render_pipeline'.target
     /\ surface'.format = render_pipeline'.target
     /\ config'.present_mode = "Fifo"
     /\ config'.usage = "RENDER_ATTACHMENT"
     /\ render_pipeline' = render_pipeline
     /\ \A i \in DOMAIN calls' : calls'[i].op \notin Builders]_vars

\* a resize to 600x800 reconfigured the surface in the pipeline's format
C18_Witness ==
  /\ Handled(ev, {"Resized"})
  /\ calls = <<Call("configure", <<600, 800>>)>>
  /\ surface.format = render_pipeline.target
  /\ surface.present_mode = "Fifo"
  /\ uniforms_buffer.resolution = <<800, 600>>

\* C19: only a CloseRequested or pressed-Escape event for the window moves
\* the control flow from Poll to Exit, and the loop ends only after one of
\* them or by a panic in a failed frame acquisition; for every other event
\* (resize, zero-sized or not, pointer move, scale-factor change, key
\* release, other key, event for another window, redraw that got its frame)
\* the closure leaves the control flow it was handed at Poll, and the loop's
\* control flow, if Poll, stays Poll.
C19_ExitOnlyOnCloseOrEscape ==
  [][/\ (control_flow = "Poll" /\ control_flow' = "Exit") => IsExit(ev')
     /\ (status' = "exited") => control_flow = "Exit"
     /\ (status' = "panicked" /\ status = "running") =>
          (IsRedraw(ev') /\ Acquired(calls') \cap {"Ok"} = {})
     /\ (status = "running" /\ ~IsExit(ev')
           /\ ~(IsRedraw(ev') /\ Acquired(calls') # {"Ok"})) =>
          /\ closure(Captured, ev', [acquire |-> "Ok", now |-> clock']).cf = "Poll"
          /\ control_flow = "Poll" => control_flow' = "Poll"
          /\ status' = "exited" \/ status' = "running"]_vars

\* a released Escape key left the loop polling
C19_Witness ==
  /\ Handled(ev, {"KeyboardInput"})
  /\ ev.event.state = "Released"
  /\ ev.event.virtual_keycode = "Escape"
  /\ control_flow = "Poll"
  /\ status = "running"

\* the event source delivers MainEventsCleared, the redraw it asked for and
\* RedrawEventsCleared in every iteration of the loop
LiveSpec ==
  /\ Spec
  /\ WF_vars(MainEventsCleared)
  /\ WF_vars(RedrawRequested)
  /\ WF_vars(RedrawEventsCleared)

\* the last step presented a frame
Presented == IsRedraw(ev) /\ Ops(calls, "present") # {}

\* C20: every MainEventsCleared handled while the loop runs calls
\* request_redraw exactly once and leaves the redraw pending with the
\* control flow the closure wrote at Poll; under fair delivery a pending
\* redraw leads to a submitted and presented frame unless its acquisition
\* fails, and frames are presented again and again unless the loop exits or
\* the process panics.
C20_FramesKeepComing ==
  /\ [][ev'.kind = "MainEventsCleared" =>
          /\ calls' = <<Call("request_redraw", NoArg)>>
          /\ redraw_requested'
          /\ closure(Captured, ev', NoInput).cf = "Poll"]_vars
  /\ (redraw_requested /\ status = "running")
        ~> (Presented \/ status # "running")
  /\ []<>(Presented \/ status # "running")

\* a frame was presented at the largest clock reading, the loop still polling
C20_Witness ==
  /\ Presented
  /\ Ops(calls, "submit") # {}
  /\ control_flow = "Poll"
  /\ status = "running"
  /\ clock = TwoPow24 + 1
  /\ uniforms_buffer.time = TwoPow24

====
